---- MODULE Spec2Model ----
(***************************************************************************)
(* Model of debug_torque_connection.py: the Torque desktop connection      *)
(* diagnostic.  The script is one sequential run of main(); its state is   *)
(* the position in main() (pc), its local variables, the lines printed so  *)
(* far (out) and the network operations issued so far (net).  The          *)
(* environment is the platform, the filesystem below the candidate data    *)
(* directories, and what the network answers to each connect and GET.      *)
(***************************************************************************)
EXTENDS Integers, Sequences, FiniteSets, TLC

VARIABLES
    osName,       \* os.name: "nt" or "posix"
    appdata,      \* os.environ.get('APPDATA'): "unset", "empty" or "set"
    fs,           \* candidate path -> "absent" | "file" | "dir"
    portFile,     \* <first existing candidate>/server_port.txt
    pc,           \* position in the run
    data_dir,     \* check_server_port_file: data_dir
    server_port,  \* main: server_port
    status_code,  \* main: status_code (last health check)
    response,     \* main: response (last health check)
    i,            \* main: index of the fallback port under examination
    out,          \* lines printed so far
    net,          \* network operations issued so far
    url,          \* check_http_endpoint: url (stand-alone call)
    served        \* what the network answered to the stand-alone call

vars == <<osName, appdata, fs, portFile, pc, data_dir, server_port,
          status_code, response, i, out, net, url, served>>

----------------------------------------------------------------------------
(* Bounds of the model *)

\* longest port-file content drawn for the port reader
MaxContentLen == 3
\* longest response body drawn in a run of main()
MaxMainBody == 1
\* how far beyond the 200-character prefix a drawn body may reach
MaxExtraBody == 2

\* response.text[:200]
BodyPrefixLen == 200
\* socket.connect_ex accepts ports 0..65535 and raises OverflowError otherwise
MaxTcpPort == 65535

----------------------------------------------------------------------------
(* Values *)

Some(v) == [some |-> TRUE, val |-> v]
NoInt == [some |-> FALSE, val |-> 0]
NoPath == [some |-> FALSE, val |-> <<>>]

\* Python truthiness of an Optional[int]: None and 0 are false
Truthy(o) == o.some /\ o.val # 0

Min(a, b) == IF a <= b THEN a ELSE b

\* s[:n]
Prefix(s, n) == SubSeq(s, 1, Min(n, Len(s)))

RECURSIVE SeqsUpTo(_, _)
SeqsUpTo(S, n) ==
    IF n = 0 THEN {<<>>}
    ELSE LET shorter == SeqsUpTo(S, n - 1)
         IN  shorter \cup {Append(s, c) : s \in {t \in shorter : Len(t) = n - 1}, c \in S}

----------------------------------------------------------------------------
(* Filesystem: find_torque_data_dir *)

\* Path(appdata) / "com.torque.desktop"
AppDataDir == <<"%APPDATA%", "com.torque.desktop">>
\* home / ".local" / "share" / "com.torque.desktop"
LocalShareDir == <<"~", ".local", "share", "com.torque.desktop">>
\* home / "Library" / "Application Support" / "com.torque.desktop"
LibraryDir == <<"~", "Library", "Application Support", "com.torque.desktop">>
\* home / ".config" / "torque-desktop"
ConfigDir == <<"~", ".config", "torque-desktop">>

Candidates == {AppDataDir, LocalShareDir, LibraryDir, ConfigDir}
Kinds == {"absent", "file", "dir"}

\* Path.exists(): true of anything at the path, a directory or not
PathExists(files, p) == files[p] # "absent"

\* the candidate list built at lines 34-47
possible_dirs(os, env) ==
    IF os = "nt"
    THEN IF env = "set" THEN <<AppDataDir>> ELSE <<>>
    ELSE <<LocalShareDir, LibraryDir, ConfigDir>>

\* the loop at lines 49-53: the first candidate that exists, else None
RECURSIVE FirstExisting(_, _)
FirstExisting(files, dirs) ==
    IF dirs = <<>> THEN NoPath
    ELSE IF PathExists(files, Head(dirs)) THEN Some(Head(dirs))
    ELSE FirstExisting(files, Tail(dirs))

find_torque_data_dir(os, env, files) == FirstExisting(files, possible_dirs(os, env))

----------------------------------------------------------------------------
(* Port file: f.read().strip() and int() *)

Whitespace == {" ", "\n"}
DigitChars == {"0", "1", "2", "3", "4", "5", "6", "7", "8", "9"}
DigitVal(c) ==
    CASE c = "0" -> 0 [] c = "1" -> 1 [] c = "2" -> 2 [] c = "3" -> 3
      [] c = "4" -> 4 [] c = "5" -> 5 [] c = "6" -> 6 [] c = "7" -> 7
      [] c = "8" -> 8 [] c = "9" -> 9

\* the characters port-file contents are drawn from
Alphabet == {" ", "\n", "0", "4", "-", "+", "_", "x"}

RECURSIVE LStrip(_)
LStrip(s) == IF s # <<>> /\ Head(s) \in Whitespace THEN LStrip(Tail(s)) ELSE s

RECURSIVE RStrip(_)
RStrip(s) ==
    IF s # <<>> /\ s[Len(s)] \in Whitespace THEN RStrip(SubSeq(s, 1, Len(s) - 1)) ELSE s

\* str.strip()
Strip(s) == RStrip(LStrip(s))

\* the digits part of a Python integer literal: digits, single underscores
\* allowed between digits only
ValidDigits(d) ==
    /\ d # <<>>
    /\ \A k \in 1..Len(d) : d[k] \in DigitChars \cup {"_"}
    /\ d[1] # "_" /\ d[Len(d)] # "_"
    /\ \A k \in 1..(Len(d) - 1) : ~(d[k] = "_" /\ d[k + 1] = "_")

\* int(text, base) for base <= 10: whitespace around the literal is ignored,
\* an optional sign, then the digits; None stands for ValueError
RECURSIVE DigitsValue(_, _, _)
DigitsValue(d, base, acc) ==
    IF d = <<>> THEN acc
    ELSE IF Head(d) = "_" THEN DigitsValue(Tail(d), base, acc)
    ELSE DigitsValue(Tail(d), base, base * acc + DigitVal(Head(d)))

ParseInt(text, base) ==
    LET t == Strip(text)
        signed == t # <<>> /\ Head(t) \in {"+", "-"}
        d == IF signed THEN Tail(t) ELSE t
    IN  IF ~ValidDigits(d) \/ \E k \in 1..Len(d) : d[k] # "_" /\ DigitVal(d[k]) >= base
        THEN NoInt
        ELSE IF signed /\ Head(t) = "-" THEN Some(0 - DigitsValue(d, base, 0))
        ELSE Some(DigitsValue(d, base, 0))

\* int(f.read().strip()), line 69
ReadPortBase8(content) == ParseInt(Strip(content), 8)
ReadPort(content) == ParseInt(Strip(content), 10)

\* port files: missing, unreadable (open() raises), or readable with a content
MissingFile == [exists |-> FALSE, readable |-> FALSE, content |-> <<>>]
UnreadableFile == [exists |-> TRUE, readable |-> FALSE, content |-> <<>>]
TextFile(c) == [exists |-> TRUE, readable |-> TRUE, content |-> c]

----------------------------------------------------------------------------
(* Network: check_port_open and check_http_endpoint *)

Host == "127.0.0.1"

\* f"http://127.0.0.1:{port}{path}" as its parts
Url(scheme, port, path) == [scheme |-> scheme, host |-> Host, port |-> port, path |-> path]
NoUrl == [scheme |-> "", host |-> "", port |-> 0, path |-> ""]

HealthUrl(port) == Url("http", port, "/health/health")
WsTestUrl(port) == Url("http", port, "/ws")
GraphqlUrl(port) == Url("http", port, "/graphql")
BaseUrl(port) == Url("http", port, "")
WebSocketUrlDefaultPort(port) == Url("ws", 8080, "/ws")
WebSocketUrl(port) == Url("ws", port, "/ws")

\* what a connect can answer: a listener is possible on ports 1..65535 only,
\* and a port outside 0..65535 makes connect_ex raise OverflowError
TcpAnswers(port) ==
    IF port \in 1..MaxTcpPort THEN {"open", "refused", "error"}
    ELSE IF port = 0 THEN {"refused", "error"}
    ELSE {"error"}

\* check_port_open: result == 0, and False on any exception
check_port_open_uncaught(tcp) == [raised |-> (tcp = "error"), value |-> (tcp = "open")]
check_port_open(tcp) == [raised |-> FALSE, value |-> (tcp = "open")]

Statuses == {200, 404}
RequestExceptions == {"ConnectionError"}

BodyChar(k) == CASE k % 3 = 0 -> "a" [] k % 3 = 1 -> "b" [] OTHER -> "c"
Body(n) == [k \in 1..n |-> BodyChar(k)]

\* what a GET can answer: a response with a status and a body, or a
\* requests.exceptions.RequestException
HttpAnswers(lens) ==
    [kind : {"response"}, status : Statuses, text : {Body(n) : n \in lens}]
    \cup [kind : {"request_exception"}, status : {0}, text : {<<e>> : e \in RequestExceptions}]

\* network log entries
Connect(port, tcp) ==
    [op |-> "connect", scheme |-> "tcp", host |-> Host, port |-> port, path |-> "",
     answer |-> tcp, status |-> NoInt]
Get(u, ans) ==
    [op |-> "get", scheme |-> u.scheme, host |-> u.host, port |-> u.port, path |-> u.path,
     answer |-> ans.kind,
     status |-> IF ans.kind = "response" THEN Some(ans.status) ELSE NoInt]

check_http_endpoint_whole_body(u, ans) ==
    [requests |-> <<Get(u, ans)>>,
     raised |-> ans.kind \notin {"response", "request_exception"},
     status |-> IF ans.kind = "response" THEN Some(ans.status) ELSE NoInt,
     text |-> ans.text]

\* check_http_endpoint(url): one requests.get; (status_code, text[:200]) on a
\* response, (None, str(e)) on a RequestException; anything else propagates
check_http_endpoint(u, ans) ==
    [requests |-> <<Get(u, ans)>>,
     raised |-> ans.kind \notin {"response", "request_exception"},
     status |-> IF ans.kind = "response" THEN Some(ans.status) ELSE NoInt,
     text |-> IF ans.kind = "response" THEN Prefix(ans.text, BodyPrefixLen) ELSE ans.text]

----------------------------------------------------------------------------
(* Printed lines *)

Line(msg, n, u, text) == [msg |-> msg, n |-> n, url |-> u, text |-> text]
Say(msg) == Line(msg, 0, NoUrl, <<>>)
SayN(msg, n) == Line(msg, n, NoUrl, <<>>)
SayText(msg, text) == Line(msg, 0, NoUrl, text)
SayUrl(msg, u) == Line(msg, 0, u, <<>>)

Banner == <<Say("Torque Desktop Connection Diagnostic Tool"), Say("="),
            Say("1. Checking for embedded server...")>>

Tips == <<Say("="), Say("Troubleshooting Tips:"),
          Say("1. Make sure the Torque desktop app is running"),
          Say("2. Check the app logs for server startup errors"),
          Say("3. Try restarting the desktop application"),
          Say("4. Check if any firewall is blocking local connections")>>

Summary(port) ==
    <<Say("Server appears to be running correctly!"),
      Say("Frontend should connect to:"),
      SayUrl("Base URL:", BaseUrl(port)),
      SayUrl("WebSocket:", WebSocketUrl(port)),
      SayUrl("GraphQL:", GraphqlUrl(port))>>

\* test_ports, line 131
test_ports_swapped == <<8080, 3000, 8081, 3001>>
test_ports == <<8080, 8081, 3000, 3001>>

\* if server_port: (line 85)
PortFoundAlways(port) == TRUE
PortFound(port) == Truthy(port)
\* if status_code: (line 96)
HealthAnsweredOk(status) == Truthy(status) /\ status.val = 200
HealthAnswered(status) == Truthy(status)
\* if status_code and status_code == 200: (line 136)
FallbackAcceptsAnyStatus(status) == Truthy(status)
FallbackAccepts(status) == Truthy(status) /\ status.val = 200

----------------------------------------------------------------------------
(* Initial states *)

\* port-file contents drawn for the port reader on its own
Contents == SeqsUpTo(Alphabet, MaxContentLen)
\* port-file contents drawn for whole runs of main()
MainContents == {<<"4">>, <<" ", "4", "0", "\n">>, <<"0">>, <<"-", "4">>, <<"x">>}

PortFiles(contents) == {MissingFile, UnreadableFile} \cup {TextFile(c) : c \in contents}

\* the platform and the filesystem the run finds
InitEnv(contents) ==
    /\ osName \in {"nt", "posix"}
    /\ appdata \in {"unset", "empty", "set"}
    /\ fs \in [Candidates -> Kinds]
    /\ osName = "nt" => \A p \in Candidates \ {AppDataDir} : fs[p] = "absent"
    /\ osName = "posix" => appdata = "unset" /\ fs[AppDataDir] = "absent"
    /\ portFile \in PortFiles(contents)

InitLocals ==
    /\ data_dir = NoPath
    /\ server_port = NoInt
    /\ status_code = NoInt
    /\ response = <<>>
    /\ i = 1
    /\ out = <<>>
    /\ net = <<>>
    /\ url = NoUrl
    /\ served = [kind |-> "", status |-> 0, text |-> <<>>]

Init == InitEnv(MainContents) /\ InitLocals /\ pc = "main"

env == <<osName, appdata, fs, portFile>>

----------------------------------------------------------------------------
(* check_server_port_file, lines 55-75 *)

\* line 57: data_dir = find_torque_data_dir()
FindDataDir ==
    /\ pc = "check_server_port_file"
    /\ data_dir' = find_torque_data_dir(osName, appdata, fs)
    /\ pc' = "data_dir_found"
    /\ UNCHANGED <<env, server_port, status_code, response, i, out, net, url, served>>

\* data_dir / "server_port.txt"
PortFilePath(dir) == dir \o <<"server_port.txt">>
\* port_file.exists(): nothing exists below a path that is no directory
PortFileExists == fs[data_dir.val] = "dir" /\ portFile.exists

\* lines 58-60: no data directory
DataDirMissing ==
    /\ pc = "data_dir_found"
    /\ ~data_dir.some
    /\ out' = Append(out, Say("Could not find Torque data directory"))
    /\ server_port' = NoInt
    /\ pc' = "port_returned"
    /\ UNCHANGED <<env, data_dir, status_code, response, i, net, url, served>>

\* lines 62-65: no port file
PortFileMissing ==
    /\ pc = "data_dir_found"
    /\ data_dir.some
    /\ ~PortFileExists
    /\ out' = Append(out, SayText("Port file not found:", PortFilePath(data_dir.val)))
    /\ server_port' = NoInt
    /\ pc' = "port_returned"
    /\ UNCHANGED <<env, data_dir, status_code, response, i, net, url, served>>

\* lines 67-75: open, read and parse; any exception gives None
ReadPortFile ==
    /\ pc = "data_dir_found"
    /\ data_dir.some
    /\ PortFileExists
    /\ LET port == IF portFile.readable THEN ReadPort(portFile.content) ELSE NoInt
       IN  /\ server_port' = port
           /\ out' = IF port.some
                     THEN out \o <<SayText("Found port file:", PortFilePath(data_dir.val)),
                                   SayN("Embedded server port:", port.val)>>
                     ELSE Append(out, Say("Error reading port file:"))
    /\ pc' = "port_returned"
    /\ UNCHANGED <<env, data_dir, status_code, response, i, net, url, served>>

check_server_port_file == FindDataDir \/ DataDirMissing \/ PortFileMissing \/ ReadPortFile

----------------------------------------------------------------------------
(* main, lines 77-147 *)

\* lines 78-82
MainStart ==
    /\ pc = "main"
    /\ out' = out \o Banner
    /\ pc' = "check_server_port_file"
    /\ UNCHANGED <<env, data_dir, server_port, status_code, response, i, net, url, served>>

\* lines 85-86: a port was found
MainPortFound ==
    /\ pc = "port_returned"
    /\ PortFound(server_port)
    /\ out' = Append(out, SayN("2. Testing embedded server on port", server_port.val))
    /\ pc' = "probe"
    /\ UNCHANGED <<env, data_dir, server_port, status_code, response, i, net, url, served>>

\* lines 126-131: no port was found
MainNoPort ==
    /\ pc = "port_returned"
    /\ ~PortFound(server_port)
    /\ out' = out \o <<Say("No embedded server found"),
                       Say("3. Testing default development endpoints...")>>
    /\ i' = 1
    /\ pc' = "scan"
    /\ UNCHANGED <<env, data_dir, server_port, status_code, response, net, url, served>>

\* lines 89-90 and 124-125: the TCP probe of the stored port
MainProbe ==
    /\ pc = "probe"
    /\ \E tcp \in TcpAnswers(server_port.val) :
         LET r == check_port_open(tcp)
         IN  /\ net' = Append(net, Connect(server_port.val, tcp))
             /\ IF r.raised
                THEN pc' = "crashed" /\ out' = out
                ELSE IF r.value
                THEN /\ out' = Append(out, SayN("Port is open", server_port.val))
                     /\ pc' = "health"
                ELSE /\ out' = Append(out, SayN("Port is not accessible", server_port.val))
                     /\ pc' = "tips"
    /\ UNCHANGED <<env, data_dir, server_port, status_code, response, i, url, served>>

\* lines 93-98 and 122-123: the health check on the stored port
MainHealth ==
    /\ pc = "health"
    /\ \E ans \in HttpAnswers(0..MaxMainBody) :
         LET r == check_http_endpoint(HealthUrl(server_port.val), ans)
         IN  /\ net' = net \o r.requests
             /\ IF r.raised
                THEN pc' = "crashed" /\ UNCHANGED <<out, status_code, response>>
                ELSE /\ status_code' = r.status
                     /\ response' = r.text
                     /\ IF HealthAnswered(r.status)
                        THEN /\ out' = out \o <<SayN("Health endpoint:", r.status.val),
                                                SayText("Response:", r.text)>>
                             /\ pc' = "ws"
                        ELSE /\ out' = Append(out, SayText("Health endpoint failed:", r.text))
                             /\ pc' = "tips"
    /\ UNCHANGED <<env, data_dir, server_port, i, url, served>>

\* lines 101-106: the WebSocket endpoint
MainWs ==
    /\ pc = "ws"
    /\ \E ans \in HttpAnswers(0..MaxMainBody) :
         LET r == check_http_endpoint(WsTestUrl(server_port.val), ans)
         IN  /\ net' = net \o r.requests
             /\ IF r.raised
                THEN pc' = "crashed" /\ out' = out
                ELSE /\ out' = Append(out, IF Truthy(r.status)
                                           THEN SayN("WebSocket endpoint status:", r.status.val)
                                           ELSE SayText("WebSocket endpoint test:", r.text))
                     /\ pc' = "graphql"
    /\ UNCHANGED <<env, data_dir, server_port, status_code, response, i, url, served>>

\* lines 109-120: the GraphQL endpoint, then the connection summary
MainGraphql ==
    /\ pc = "graphql"
    /\ \E ans \in HttpAnswers(0..MaxMainBody) :
         LET r == check_http_endpoint(GraphqlUrl(server_port.val), ans)
         IN  /\ net' = net \o r.requests
             /\ IF r.raised
                THEN pc' = "crashed" /\ out' = out
                ELSE /\ out' = Append(out, IF Truthy(r.status)
                                           THEN SayN("GraphQL endpoint:", r.status.val)
                                           ELSE SayText("GraphQL endpoint:", r.text))
                                  \o Summary(server_port.val)
                     /\ pc' = "tips"
    /\ UNCHANGED <<env, data_dir, server_port, status_code, response, i, url, served>>

\* lines 132-138: one iteration of the loop over test_ports
ScanPort ==
    /\ pc = "scan"
    /\ i <= Len(test_ports)
    /\ LET port == test_ports[i]
       IN  \E tcp \in TcpAnswers(port) :
             LET p == check_port_open(tcp)
             IN  IF p.raised
                 THEN /\ net' = Append(net, Connect(port, tcp))
                      /\ pc' = "crashed"
                      /\ UNCHANGED <<out, status_code, response, i>>
                 ELSE IF ~p.value
                 THEN /\ net' = Append(net, Connect(port, tcp))
                      /\ i' = i + 1
                      /\ UNCHANGED <<out, status_code, response, pc>>
                 ELSE \E ans \in HttpAnswers(0..MaxMainBody) :
                        LET r == check_http_endpoint(HealthUrl(port), ans)
                        IN  /\ net' = Append(net, Connect(port, tcp)) \o r.requests
                            /\ IF r.raised
                               THEN pc' = "crashed" /\ UNCHANGED <<out, status_code, response, i>>
                               ELSE /\ status_code' = r.status
                                    /\ response' = r.text
                                    /\ IF FallbackAccepts(r.status)
                                       THEN /\ out' = Append(out, SayN("Found Torque server on port", port))
                                            /\ pc' = "tips"
                                            /\ i' = i
                                       ELSE /\ i' = i + 1
                                            /\ UNCHANGED <<out, pc>>
    /\ UNCHANGED <<env, data_dir, server_port, url, served>>

\* lines 139-140: the loop's else
ScanExhausted ==
    /\ pc = "scan"
    /\ i > Len(test_ports)
    /\ out' = Append(out, Say("No Torque server found on common ports"))
    /\ pc' = "tips"
    /\ UNCHANGED <<env, data_dir, server_port, status_code, response, i, net, url, served>>

\* lines 142-147: the tips, after which main returns
MainTips ==
    /\ pc = "tips"
    /\ out' = out \o Tips
    /\ pc' = "done"
    /\ UNCHANGED <<env, data_dir, server_port, status_code, response, i, net, url, served>>

Next ==
    \/ MainStart
    \/ check_server_port_file
    \/ MainPortFound
    \/ MainNoPort
    \/ MainProbe
    \/ MainHealth
    \/ MainWs
    \/ MainGraphql
    \/ ScanPort
    \/ ScanExhausted
    \/ MainTips

Spec == Init /\ [][Next]_vars

\* the interpreter runs main() to its end: a step that can be taken is taken
FairSpec == Spec /\ WF_vars(Next)

----------------------------------------------------------------------------
(* check_server_port_file on its own, over every content up to MaxContentLen *)

InitPortFile == InitEnv(Contents) /\ InitLocals /\ pc = "check_server_port_file"

SpecPortFile == InitPortFile /\ [][check_server_port_file]_vars

----------------------------------------------------------------------------
(* check_http_endpoint on its own, over bodies around the 200-character cut *)

EndpointUrls ==
    {Url("http", p, path) : p \in {4, 8080}, path \in {"/health/health", "/ws", "/graphql"}}

InitEndpoint ==
    /\ osName = "posix" /\ appdata = "unset"
    /\ fs = [p \in Candidates |-> "absent"]
    /\ portFile = MissingFile
    /\ data_dir = NoPath
    /\ server_port = NoInt
    /\ status_code = NoInt
    /\ response = <<>>
    /\ i = 1
    /\ out = <<>>
    /\ net = <<>>
    /\ url \in EndpointUrls
    /\ served = [kind |-> "", status |-> 0, text |-> <<>>]
    /\ pc = "check_http_endpoint"

\* one call of check_http_endpoint(url): the returned pair is left in
\* (status_code, response)
CallEndpoint ==
    /\ pc = "check_http_endpoint"
    /\ \E ans \in HttpAnswers(0..(BodyPrefixLen + MaxExtraBody)) :
         LET r == check_http_endpoint(url, ans)
         IN  /\ served' = ans
             /\ net' = net \o r.requests
             /\ IF r.raised
                THEN pc' = "crashed" /\ UNCHANGED <<status_code, response>>
                ELSE /\ status_code' = r.status
                     /\ response' = r.text
                     /\ pc' = "endpoint_returned"
    /\ UNCHANGED <<env, data_dir, server_port, i, out, url>>

SpecEndpoint == InitEndpoint /\ [][CallEndpoint]_vars

----------------------------------------------------------------------------
(* What a run has printed and requested *)

Printed(msg) == \E k \in DOMAIN out : out[k].msg = msg

\* main took the branch at line 85 (a port was found) ...
MainPathEntered == Printed("2. Testing embedded server on port")
\* ... or the branch at line 126 (the fallback scan)
ScanEntered == Printed("3. Testing default development endpoints...")

SummaryPrinted == Printed("Server appears to be running correctly!")
NoServerPrinted == Printed("No Torque server found on common ports")

IsConnect(k) == net[k].op = "connect"
IsGet(k) == net[k].op = "get"

\* the TCP probe of the stored port, when the run made it, is the first operation
ProbedStoredPort ==
    /\ net # <<>>
    /\ IsConnect(1) /\ net[1].host = "127.0.0.1" /\ net[1].port = server_port.val
ProbeSucceeded == ProbedStoredPort /\ net[1].answer = "open"
ProbeFailed == ProbedStoredPort /\ net[1].answer # "open"

\* the health request on the stored port is then the second operation
HealthRequested ==
    /\ Len(net) >= 2
    /\ IsGet(2) /\ net[2].port = server_port.val /\ net[2].path = "/health/health"
HealthGotStatus == HealthRequested /\ net[2].status.some
HealthRaised == HealthRequested /\ net[2].answer = "request_exception"

\* the paths of the GETs issued, in order
RECURSIVE GetPaths(_)
GetPaths(log) ==
    IF log = <<>> THEN <<>>
    ELSE IF Head(log).op = "get" THEN <<Head(log).path>> \o GetPaths(Tail(log))
    ELSE GetPaths(Tail(log))

\* the ports of the connects issued, in order
RECURSIVE ConnectPorts(_)
ConnectPorts(log) ==
    IF log = <<>> THEN <<>>
    ELSE IF Head(log).op = "connect" THEN <<Head(log).port>> \o ConnectPorts(Tail(log))
    ELSE ConnectPorts(Tail(log))

----------------------------------------------------------------------------
(* Claims *)

\* C1: for every integer check_server_port_file() returns, main() probes TCP
\* reachability of 127.0.0.1 on exactly that port and never scans the fallback
\* ports; the fallback scan is entered only when it returned None.
C1_EveryIntegerPortIsProbed ==
    pc = "done" =>
        /\ server_port.some => ProbedStoredPort /\ ~ScanEntered
        /\ ScanEntered => ~server_port.some

\* C2 as stated: if any step of the flow fails (no data directory, port file
\* missing or unparsable, TCP probe of the stored port fails, health check on
\* the stored port fails), the run then tries the fallback ports.
C2_AnyFailureFallsBack ==
    pc = "done" /\ (~data_dir.some \/ ~server_port.some \/ ProbeFailed \/ HealthRaised)
        => ScanEntered /\ net # <<>> /\ net[1].port = 8080

\* C2 as amended: when check_server_port_file() returned None (no data
\* directory, port file missing or unparsable) the run tries the fallback
\* ports, 8080 first; when the TCP probe or the health check of the stored port
\* fails, no fallback port is tried and nothing else is requested.
C2_FallbackOnlyWithoutPort ==
    pc = "done" =>
        /\ ~server_port.some =>
              /\ ScanEntered
              /\ net # <<>> /\ IsConnect(1) /\ net[1].port = 8080
        /\ ProbeFailed => ~ScanEntered /\ Len(net) = 1
        /\ HealthRaised => ~ScanEntered /\ Len(net) = 2

C2_ProbeFailedNoFallback ==
    /\ pc = "done"
    /\ server_port = Some(4)
    /\ net = <<Connect(4, "refused")>>
    /\ ~ScanEntered

\* C3 as stated: whenever a port was found and the TCP probe succeeds, main()
\* GETs /health/health, /ws and /graphql on that port, in that order, and
\* prints the connection summary, whatever any endpoint check gives.
C3_ThreeEndpointsAlways ==
    pc = "done" /\ MainPathEntered /\ ProbeSucceeded
        => /\ GetPaths(net) = <<"/health/health", "/ws", "/graphql">>
           /\ SummaryPrinted

\* C3 as amended: whenever a port was found and the TCP probe succeeds, main()
\* GETs /health/health on that port; when that request returns a status code
\* it GETs /ws and /graphql on that port, in that order, and prints the
\* connection summary whatever /ws and /graphql give; when the health request
\* raises, nothing more is requested and no summary is printed.
C3_ThreeEndpointsAfterHealthStatus ==
    pc = "done" /\ MainPathEntered /\ ProbeSucceeded
        => /\ HealthRequested
           /\ \A k \in 2..Len(net) : IsGet(k) /\ net[k].port = server_port.val
           /\ HealthGotStatus =>
                 /\ GetPaths(net) = <<"/health/health", "/ws", "/graphql">>
                 /\ SummaryPrinted
           /\ ~HealthGotStatus =>
                 /\ GetPaths(net) = <<"/health/health">>
                 /\ ~SummaryPrinted

C3_SummaryDespiteFailedWsAndGraphql ==
    /\ pc = "done"
    /\ MainPathEntered /\ ProbeSucceeded
    /\ Len(net) = 4
    /\ net[2].status = Some(404)
    /\ net[3].answer = "request_exception"
    /\ net[4].answer = "request_exception"
    /\ SummaryPrinted

\* C4: in the fallback scan the ports 8080, 8081, 3000, 3001 are examined in
\* that order; the scan stops at the first port whose /health/health returns
\* 200 (nothing is requested after it, and a non-200 status or an error does
\* not stop the scan); "No Torque server found on common ports" is printed
\* exactly when all four ports were examined and none returned 200, and so it
\* is when there is no data directory and nothing listens on a fallback port.
C4_ScanOrderAndStop ==
    ScanEntered =>
        LET ports == ConnectPorts(net)
            hit == {k \in DOMAIN net : IsGet(k) /\ net[k].status = Some(200)}
        IN  /\ Len(ports) <= 4
            /\ ports = SubSeq(<<8080, 8081, 3000, 3001>>, 1, Len(ports))
            /\ \A k \in DOMAIN net :
                  IsGet(k) => /\ k > 1 /\ IsConnect(k - 1)
                              /\ net[k - 1].answer = "open"
                              /\ net[k].port = net[k - 1].port
                              /\ net[k].path = "/health/health"
            /\ \A k \in hit : k = Len(net)
            /\ hit # {} => Printed("Found Torque server on port") /\ pc \in {"tips", "done"}
            /\ pc = "done" =>
                  /\ hit = {} => Len(ports) = 4
                  /\ NoServerPrinted <=> (Len(ports) = 4 /\ hit = {})
                  /\ (~data_dir.some /\ \A k \in DOMAIN net : net[k].answer # "open")
                        => NoServerPrinted

C4_StopsAtSecondPort ==
    /\ pc = "done"
    /\ ScanEntered
    /\ Len(net) = 4
    /\ net[2].status = Some(404)
    /\ net[3].port = 8081
    /\ net[4].status = Some(200)
    /\ ~NoServerPrinted

\* C5: every run of main() terminates normally with the troubleshooting tips
\* as the last thing printed, whatever the filesystem, the sockets and the
\* HTTP requests give: no failure propagates out of main() or skips the tips.
TipsAreLast ==
    /\ Len(out) >= 6
    /\ [k \in 1..6 |-> out[Len(out) - 6 + k].msg] =
          <<"=", "Troubleshooting Tips:",
            "1. Make sure the Torque desktop app is running",
            "2. Check the app logs for server startup errors",
            "3. Try restarting the desktop application",
            "4. Check if any firewall is blocking local connections">>

C6_FirstExistingDirectory ==
    pc \notin {"main", "check_server_port_file"} =>
        LET dirs == IF osName = "nt"
                    THEN IF appdata = "set" THEN <<AppDataDir>> ELSE <<>>
                    ELSE <<LocalShareDir, LibraryDir, ConfigDir>>
            isDir == {k \in DOMAIN dirs : fs[dirs[k]] = "dir"}
        IN  IF isDir = {} THEN ~data_dir.some
            ELSE data_dir = Some(dirs[CHOOSE k \in isDir : \A j \in isDir : k <= j])

\* C7: check_server_port_file() returns the integer that the content of
\* <data_dir>/server_port.txt denotes in base 10 once the whitespace around it
\* is stripped ("  4321  " gives 4321), and None, without raising, when the
\* data directory is not found, the file is missing or the content is no
\* integer; a failure prints one diagnostic line and not the port-found lines.
RECURSIVE Pow10(_)
Pow10(n) == IF n = 0 THEN 1 ELSE 10 * Pow10(n - 1)

RECURSIVE PositionalSum(_, _)
PositionalSum(digits, k) ==
    IF k > Len(digits) THEN 0
    ELSE DigitVal(digits[k]) * Pow10(Len(digits) - k) + PositionalSum(digits, k + 1)

\* the content between its first and last non-blank characters
Core(c) ==
    LET inked == {k \in DOMAIN c : c[k] \notin {" ", "\n"}}
    IN  IF inked = {} THEN <<>>
        ELSE SubSeq(c, CHOOSE k \in inked : \A j \in inked : k <= j,
                       CHOOSE k \in inked : \A j \in inked : k >= j)

AllDigits(t) == t # <<>> /\ \A k \in DOMAIN t : t[k] \in DigitChars

C7_PortFileRead ==
    /\ ReadPort(<<" ", " ", "4", "3", "2", "1", " ", " ">>) = Some(4321)
    /\ pc # "crashed"
    /\ pc = "port_returned" =>
          LET core == Core(portFile.content)
              wasRead == /\ data_dir.some /\ fs[data_dir.val] = "dir"
                         /\ portFile.exists /\ portFile.readable
              noInteger == \/ \A k \in DOMAIN core : core[k] \notin DigitChars
                           \/ \E k \in DOMAIN core : core[k] \notin DigitChars \cup {"+", "-", "_"}
          IN  /\ wasRead /\ AllDigits(core) => server_port = Some(PositionalSum(core, 1))
              /\ wasRead /\ core # <<>> /\ Head(core) = "-" /\ AllDigits(Tail(core))
                    => server_port = Some(0 - PositionalSum(Tail(core), 1))
              /\ ~wasRead \/ noInteger => ~server_port.some
              /\ ~server_port.some =>
                    /\ Len(out) = 1
                    /\ out[1].msg = IF ~data_dir.some THEN "Could not find Torque data directory"
                                    ELSE IF fs[data_dir.val] # "dir" \/ ~portFile.exists
                                    THEN "Port file not found:"
                                    ELSE "Error reading port file:"
              /\ server_port.some =>
                    /\ wasRead
                    /\ Len(out) = 2
                    /\ out[1].msg = "Found port file:"
                    /\ out[1].text = data_dir.val \o <<"server_port.txt">>
                    /\ out[2].msg = "Embedded server port:"
                    /\ out[2].n = server_port.val

C7_PaddedPortRead ==
    /\ pc = "port_returned"
    /\ portFile.content = <<" ", "4", "\n">>
    /\ server_port = Some(4)
    /\ Len(out) = 2

\* C8: check_http_endpoint(url) issues exactly one GET and, on a response of
\* any status, returns (status code, the first 200 characters of the body: all
\* of a shorter body, never more than 200); on a request exception it returns
\* (None, the exception's text) and does not raise; it never retries.
C8_OneGetAndPrefix ==
    /\ pc # "crashed"
    /\ pc = "endpoint_returned" =>
          /\ Len(net) = 1
          /\ net[1].op = "get"
          /\ <<net[1].scheme, net[1].host, net[1].port, net[1].path>>
                = <<url.scheme, url.host, url.port, url.path>>
          /\ served.kind = "response" =>
                /\ status_code = Some(served.status)
                /\ Len(response) <= 200
                /\ Len(response) = IF Len(served.text) < 200 THEN Len(served.text) ELSE 200
                /\ \A k \in 1..Len(response) : response[k] = served.text[k]
          /\ served.kind = "request_exception" =>
                /\ ~status_code.some
                /\ response = served.text

C8_LongBodyCut ==
    /\ pc = "endpoint_returned"
    /\ served.kind = "response"
    /\ served.status = 404
    /\ Len(served.text) = 201
    /\ Len(response) = 200

\* C9: with a valid port file holding P, a live server on 127.0.0.1:P and a
\* health endpoint answering 200, the run prints the base URL
\* http://127.0.0.1:P, the WebSocket URL ws://127.0.0.1:P/ws and the GraphQL
\* URL http://127.0.0.1:P/graphql whatever /ws and /graphql return, and every
\* URL requested or printed on the main path carries that same P.
PrintedUrl(msg, scheme, port, path) ==
    \E k \in DOMAIN out :
        /\ out[k].msg = msg
        /\ out[k].url = [scheme |-> scheme, host |-> "127.0.0.1", port |-> port, path |-> path]

C9_UrlsFromStoredPort ==
    pc = "done" /\ MainPathEntered =>
        LET core == Core(portFile.content)
            P == IF Head(core) = "-" THEN 0 - PositionalSum(Tail(core), 1)
                 ELSE PositionalSum(core, 1)
        IN  /\ portFile.readable /\ core # <<>>
            /\ \A k \in DOMAIN net : net[k].host = "127.0.0.1" /\ net[k].port = P
            /\ \A k \in DOMAIN out : out[k].url.host # "" => out[k].url.port = P
            /\ \A k \in DOMAIN out :
                  out[k].msg \in {"2. Testing embedded server on port", "Port is open",
                                  "Port is not accessible", "Embedded server port:"}
                     => out[k].n = P
            /\ ProbeSucceeded /\ HealthRequested /\ net[2].status = Some(200) =>
                  /\ PrintedUrl("Base URL:", "http", P, "")
                  /\ PrintedUrl("WebSocket:", "ws", P, "/ws")
                  /\ PrintedUrl("GraphQL:", "http", P, "/graphql")

C9_UrlsPrintedForPort40 ==
    /\ pc = "done"
    /\ portFile.content = <<" ", "4", "0", "\n">>
    /\ Len(net) = 4
    /\ net[1].answer = "open"
    /\ net[2].status = Some(200)
    /\ net[3].status = Some(404)
    /\ net[4].answer = "request_exception"
    /\ PrintedUrl("WebSocket:", "ws", 40, "/ws")

\* C10: on the main path the success summary is printed if and only if the
\* health check on the stored port returned a status code, whatever the code
\* (a 4xx or 5xx still gives the summary), whereas the fallback scan accepts a
\* port only on a health status of exactly 200; "Health endpoint failed" is
\* printed only when the health request raised a request exception, and /ws and
\* /graphql are requested only after the health check returned a status code.
C10_SummaryOnAnyHealthStatus ==
    /\ SummaryPrinted => MainPathEntered
    /\ pc = "done" /\ MainPathEntered =>
          /\ SummaryPrinted <=> HealthGotStatus
          /\ Printed("Health endpoint failed:") => HealthRaised
    /\ MainPathEntered =>
          \A k \in DOMAIN net :
              IsGet(k) /\ net[k].path \in {"/ws", "/graphql"} => k > 2 /\ HealthGotStatus
    /\ Printed("Found Torque server on port") =>
          /\ ScanEntered
          /\ IsGet(Len(net)) /\ net[Len(net)].status = Some(200)
          /\ \E k \in DOMAIN out :
                /\ out[k].msg = "Found Torque server on port"
                /\ out[k].n = net[Len(net)].port
    /\ ScanEntered /\ pc = "done" /\ IsGet(Len(net)) /\ net[Len(net)].status # Some(200)
          => ~Printed("Found Torque server on port")

C10_SummaryOnHealth404 ==
    /\ pc = "done"
    /\ MainPathEntered
    /\ HealthRequested
    /\ net[2].status = Some(404)
    /\ SummaryPrinted
    /\ ~Printed("Health endpoint failed:")

====
